---- MODULE Spec2Model ----
(***************************************************************************)
(* Model of evergit.py: the run coordinator (main), the per-repository     *)
(* decision engine (process_repo), the git helpers (run_git_command,       *)
(* is_git_repo, has_uncommitted_changes, safe_clone, safe_pull), the path  *)
(* resolver (repo_name_from_url) and the delay (_sleep).                   *)
(*                                                                         *)
(* Text (URLs, directory names, captured command output) is a sequence of  *)
(* one-character strings.  The filesystem below backup_root is a function  *)
(* from directory names to what the probes of the program can observe.     *)
(* The git binary is the environment: every command either cannot be       *)
(* spawned (subprocess.run raises OSError) or exits with a return code.    *)
(***************************************************************************)
EXTENDS Integers, Sequences, FiniteSets, TLC

\* ------------------------------------------------------------------ bounds
MaxRepos == 2

\* ------------------------------------------------------------- text helpers
Whitespace == {" ", "\n"}

RECURSIVE Rstrip(_, _)
\* str.rstrip(chars): drop every trailing character that is in chars
Rstrip(s, chars) ==
    IF s # <<>> /\ s[Len(s)] \in chars
    THEN Rstrip(SubSeq(s, 1, Len(s) - 1), chars)
    ELSE s

RECURSIVE Lstrip(_, _)
Lstrip(s, chars) ==
    IF s # <<>> /\ s[1] \in chars THEN Lstrip(Tail(s), chars) ELSE s

\* str.strip(): drop leading and trailing whitespace
Strip(s) == Lstrip(Rstrip(s, Whitespace), Whitespace)

RECURSIVE SplitAcc(_, _, _)
SplitAcc(s, sep, cur) ==
    IF s = <<>> THEN << cur >>
    ELSE IF s[1] = sep THEN << cur >> \o SplitAcc(Tail(s), sep, <<>>)
    ELSE SplitAcc(Tail(s), sep, Append(cur, s[1]))

\* str.split(sep): the segments between the separators (never empty list)
Split(s, sep) == SplitAcc(s, sep, <<>>)

RECURSIVE Replace(_, _, _)
\* str.replace(old, new) for a one-character old
Replace(s, old, new) ==
    IF s = <<>> THEN <<>>
    ELSE (IF s[1] = old THEN new ELSE << s[1] >>) \o Replace(Tail(s), old, new)

Contains(s, c) == \E k \in 1..Len(s) : s[k] = c

\* --------------------------------------------------------- path resolution
\* variant: the trailing separators are not stripped
UrlSegments_raw(url) == Split(url, "/")

\* url.rstrip("/").split("/")
UrlSegments(url) == Split(Rstrip(url, {"/"}), "/")

\* the [-2] index of line 261 is out of range: IndexError
UrlRaises(url) == Contains(url, "/") /\ Len(UrlSegments(url)) < 2

UrlName(url) == UrlSegments(url)[Len(UrlSegments(url))]

UrlOwner(url) ==
    IF Contains(url, "/") THEN UrlSegments(url)[Len(UrlSegments(url)) - 1]
    ELSE <<>>

Combined(url) ==
    IF UrlOwner(url) # <<>>
    THEN UrlOwner(url) \o <<"_", "_">> \o UrlName(url)
    ELSE UrlName(url)

\* line 267: the characters replaced in the directory name
Sanitise(t) ==
    Replace(Replace(Replace(t, ":", <<"_", "_">>), "@", <<"_", "_">>), " ", <<"_">>)

\* defined for the urls that do not raise
RepoNameFromUrl(url) == Sanitise(Combined(url))


\* ------------------------------------------------------------ configuration
\* the urls the repository lists are drawn from: owner/name, the same with a
\* trailing separator, a url without separator, a url that is one segment
\* followed by a separator
UrlON   == <<"o", "/", "n">>
UrlONS  == <<"o", "/", "n", "/">>
UrlN    == <<"n">>
UrlBad  == <<"n", "/">>
UrlSet  == {UrlON, UrlONS, UrlN, UrlBad}

RepoLists == UNION {[1..n -> UrlSet] : n \in 0..MaxRepos}

\* Config: sleep_seconds in ticks (even, so that half of it is a tick count)
CfgSet == {[sleep_seconds |-> 2,  randomize_sleep |-> TRUE],
           [sleep_seconds |-> 2,  randomize_sleep |-> FALSE],
           [sleep_seconds |-> -2, randomize_sleep |-> FALSE]}

\* ---------------------------------------------------------------- filesystem
\* what the probes can observe of a path below backup_root:
\*   exists   Path.exists()
\*   dotgit   (path / ".git").exists()
\*   head     (path / "HEAD").exists()
\*   inrepo   git rev-parse --is-inside-work-tree exits 0 in it
\*   worktree git status can run in it (there is a working tree)
\*   dirty    the working tree has staged, unstaged or untracked entries
PathState(e, g, h, r, w, d) ==
    [exists |-> e, dotgit |-> g, head |-> h, inrepo |-> r, worktree |-> w, dirty |-> d]

Absent      == PathState(FALSE, FALSE, FALSE, FALSE, FALSE, FALSE)
PlainDir    == PathState(TRUE,  FALSE, FALSE, FALSE, FALSE, FALSE)
Mirror      == PathState(TRUE,  FALSE, TRUE,  TRUE,  FALSE, FALSE)
WorkTree(d) == PathState(TRUE,  TRUE,  FALSE, TRUE,  TRUE,  d)
\* a plain directory inside the working tree of an enclosing repository
Nested(d)   == PathState(TRUE,  FALSE, FALSE, TRUE,  TRUE,  d)

PathStates == {Absent, PlainDir, Mirror, WorkTree(FALSE), WorkTree(TRUE),
               Nested(FALSE), Nested(TRUE)}

Stems == {RepoNameFromUrl(u) : u \in {v \in UrlSet : ~UrlRaises(v)}}
NoDest == <<"?">>

\* ------------------------------------------------------- command execution
\* what subprocess.run gives: the process could not be spawned (OSError is
\* raised), or a CompletedProcess with returncode, stdout, stderr
Result(s, rc, out, err) == [spawned |-> s, rc |-> rc, out |-> out, err |-> err]
SpawnError == Result(FALSE, 0, <<>>, <<>>)

\* variant: every exception of subprocess.run is turned into a result
RunGitRaises_never(r) == FALSE

\* run_git_command with check=False: the CalledProcessError handler is never
\* entered, every other exception leaves the function
RunGitRaises(r) == ~r.spawned

RevParseResults(st) ==
    {SpawnError,
     IF st.inrepo THEN Result(TRUE, 0, <<"t", "\n">>, <<>>)
                  ELSE Result(TRUE, 128, <<>>, <<"f", "\n">>)}

\* status --porcelain: one line per entry; it fails without a working tree
\* and may fail with one (unreadable index, lock)
StatusResults(st) ==
    {SpawnError, Result(TRUE, 128, <<>>, <<"f", "\n">>)}
    \cup (IF st.worktree
          THEN {Result(TRUE, 0, IF st.dirty THEN <<"?", " ", "x", "\n">> ELSE <<>>, <<>>)}
          ELSE {})

CloneResults ==
    {SpawnError,
     Result(TRUE, 0, <<>>, <<>>),
     Result(TRUE, 128, <<>>, <<"f", "\n">>),
     Result(TRUE, 1, <<"m", "\n">>, <<>>)}

UpdateResults ==
    {SpawnError, Result(TRUE, 0, <<>>, <<>>), Result(TRUE, 1, <<>>, <<"f", "\n">>)}

\* variant: every existing directory counts as a repository
IsGitRepo_exists(st, rc) == st.exists

\* variant: only a .git entry makes a repository, rev-parse is not consulted
IsGitRepo_dotgit(st, rc) == st.exists /\ st.dotgit

\* is_git_repo, given the path and the return code of rev-parse when it ran
NeedsRevParse(st) == st.exists /\ ~st.dotgit
IsGitRepo(st, rc) == st.exists /\ (st.dotgit \/ rc = 0)

\* variant: the return code is tested and the output is not
HasUncommittedChanges_rc(r) == r.rc # 0

\* has_uncommitted_changes, given the result of status --porcelain
HasUncommittedChanges(r) == Strip(r.out) # <<>>

\* variant: every clone that ran counts as a success
SafeCloneOk_any(r) == r.spawned

\* safe_clone: success of the clone, and the text of the error it logs
SafeCloneOk(r) == r.rc = 0
CloneDiagnostic(r) == Strip(IF r.err # <<>> THEN r.err ELSE r.out)

\* variant: the clone goes to another directory, the destination stays as it was
CloneEffect_none(st) == st

\* what a successful clone --mirror leaves at the destination
CloneEffect(st) == Mirror

\* safe_pull line 178: is the status check made
PullChecksStatus(st) == st.dotgit \/ st.head

\* variant: no return code ends the chain
UpdateOk_never(r) == FALSE

\* success of one update command
UpdateOk(r) == r.rc = 0

\* return codes of main
FatalStatus == 2
OkStatus == 0
NotReturned == -1

\* _sleep: the set of durations handed to time.sleep
Max(a, b) == IF a > b THEN a ELSE b
Min(a, b) == IF a < b THEN a ELSE b
\* variant: the jitter is the whole of sleep_seconds and not half of it
SleepChoices_full(c) ==
    IF c.randomize_sleep
    THEN LET jitter == c.sleep_seconds
             a == c.sleep_seconds - jitter
             b == c.sleep_seconds + jitter
         IN  {Max(0, v) : v \in Min(a, b)..Max(a, b)}
    ELSE {c.sleep_seconds}

SleepChoices(c) ==
    IF c.randomize_sleep
    THEN LET jitter == c.sleep_seconds \div 2
             a == c.sleep_seconds - jitter
             b == c.sleep_seconds + jitter
         IN  {Max(0, v) : v \in Min(a, b)..Max(a, b)}
    ELSE {c.sleep_seconds}
\* time.sleep raises ValueError for a negative duration
SleepRaises(secs) == secs < 0


\* --------------------------------------------------------------------- state
VARIABLES repos,    \* cfg.repos
          cfg,      \* sleep_seconds, randomize_sleep
          fs,       \* the paths below backup_root
          root,     \* the mkdir of the backup root: "pending", "ok", "failed"
          pc,       \* position of the run
          idx,      \* position of the for loop of main in repos
          dest,     \* dest of the latest process_repo call
          stems,    \* per list entry: the directory name its url resolved to
          log,      \* the mkdir and git commands of the latest call, in order
          outcome,  \* per list entry: where its process_repo call ended
          ret       \* return value of main

vars == <<repos, cfg, fs, root, pc, idx, dest, stems, log, outcome, ret>>

\* where a process_repo call ended: the log line of its return (kind), the
\* text logged with it, the exception that left the call, and the
\* durations of its time.sleep calls
Outcome(k, m) == [kind |-> k, msg |-> m, exc |-> "none", sleeps |-> <<>>]
NoOutcome == Outcome("none", <<>>)

\* the directories the urls of a list resolve to
StemsOf(list) ==
    {RepoNameFromUrl(list[k]) : k \in {j \in 1..Len(list) : ~UrlRaises(list[j])}}

\* the start of main for a list, a configuration and a backup tree drawn
\* from the given sets; a directory no url of the list resolves to is absent
InitRun(lists, cfgs, dirs, states) ==
    /\ repos \in lists
    /\ cfg \in cfgs
    /\ fs \in [dirs -> states]
    /\ \A s \in dirs \ StemsOf(repos) : fs[s] = Absent
    /\ root = "pending"
    /\ pc = "main_mkdir"
    /\ idx = 1
    /\ dest = NoDest
    /\ stems = [k \in 1..Len(repos) |-> NoDest]
    /\ log = <<>>
    /\ outcome = [k \in 1..Len(repos) |-> NoOutcome]
    /\ ret = NotReturned

Init == InitRun(RepoLists, CfgSet, Stems, PathStates)

\* a command run by the call in progress: its result, and the destination
\* and its state when the command was issued
Issue(cmd, r) ==
    log' = Append(log, [i |-> idx, cmd |-> cmd, url |-> repos[idx], dest |-> dest,
                        st |-> fs[dest], spawned |-> r.spawned,
                        rc |-> r.rc, out |-> r.out, err |-> r.err])

\* variant: the loop does not move on, the same entry is taken again
Return_again(k, m) ==
    /\ outcome' = [outcome EXCEPT ![idx] = Outcome(k, m)]
    /\ pc' = "loop"
    /\ idx' = idx
    /\ ret' = ret

\* variant: the delay is made on every way out of process_repo
Return_slept(k, m) ==
    /\ outcome' = [outcome EXCEPT ![idx] = [Outcome(k, m) EXCEPT !.sleeps = <<Max(0, cfg.sleep_seconds)>>]]
    /\ pc' = "loop"
    /\ idx' = idx + 1
    /\ ret' = ret

\* process_repo returns to the loop of main
Return(k, m) ==
    /\ outcome' = [outcome EXCEPT ![idx] = Outcome(k, m)]
    /\ pc' = "loop"
    /\ idx' = idx + 1
    /\ ret' = ret

\* variant: no except clause, the exception ends main
MainExcept_abort(i) ==
    /\ pc' = "crashed"
    /\ idx' = i
    /\ ret' = 1

\* variant: after an exception the loop takes the same entry again
MainExcept_retry(i) ==
    /\ pc' = "loop"
    /\ idx' = i
    /\ ret' = ret

\* the except clause of the loop of main: log, continue with the next entry
MainExcept(i) ==
    /\ pc' = "loop"
    /\ idx' = i + 1
    /\ ret' = ret

\* an exception leaves process_repo and reaches the try of main
Raise(e) ==
    /\ outcome' = [outcome EXCEPT ![idx].exc = e]
    /\ MainExcept(idx)

\* variant: the failure of the root mkdir is logged and the run goes on
AfterRootMkdir_goon(ok) == "loop"

\* what the root mkdir of main decides
AfterRootMkdir(ok) == IF ok THEN "loop" ELSE "fatal"

\* main, lines 310-316: ensure the backup root exists
MainMkdirRoot ==
    /\ pc = "main_mkdir"
    /\ \E ok \in BOOLEAN :
         /\ root' = IF ok THEN "ok" ELSE "failed"
         /\ pc' = AfterRootMkdir(ok)
         /\ ret' = IF pc' = "fatal" THEN FatalStatus ELSE ret
    /\ UNCHANGED <<repos, stems, cfg, fs, idx, dest, log, outcome>>

\* main, lines 319-321 and 326-327: next entry, or the end of the run
MainLoop ==
    /\ pc = "loop"
    /\ IF idx <= Len(repos)
       THEN pc' = "pr_resolve" /\ ret' = ret /\ log' = <<>> /\ dest' = NoDest
       ELSE pc' = "done" /\ ret' = OkStatus /\ UNCHANGED <<log, dest>>
    /\ UNCHANGED <<repos, stems, cfg, fs, root, idx, outcome>>

\* process_repo, lines 214-219: resolve the destination, does it exist
PrResolve ==
    /\ pc = "pr_resolve"
    /\ IF UrlRaises(repos[idx])
       THEN Raise("IndexError") /\ dest' = dest /\ stems' = stems
       ELSE /\ dest' = RepoNameFromUrl(repos[idx])
            /\ stems' = [stems EXCEPT ![idx] = dest']
            /\ pc' = IF ~fs[dest'].exists THEN "pr_mkdir" ELSE "pr_isrepo"
            /\ UNCHANGED <<idx, outcome, ret>>
    /\ UNCHANGED <<repos, cfg, fs, root, log>>

\* process_repo, lines 221-225: the parent of the destination
PrMkdir ==
    /\ pc = "pr_mkdir"
    /\ \E ok \in BOOLEAN :
         /\ Issue("mkdir", Result(TRUE, IF ok THEN 0 ELSE 1, <<>>, <<>>))
         /\ IF ok
            THEN pc' = "pr_clone" /\ UNCHANGED <<idx, outcome, ret>>
            ELSE Return("mkdir_failed", <<>>)
    /\ UNCHANGED <<repos, stems, cfg, fs, root, dest>>

\* process_repo, lines 228-231, with safe_clone
PrClone ==
    /\ pc = "pr_clone"
    /\ \E r \in CloneResults :
         /\ Issue("clone", r)
         /\ fs' = [fs EXCEPT ![dest] = IF r.spawned /\ r.rc = 0 THEN CloneEffect(@) ELSE @]
         /\ IF RunGitRaises(r)
            THEN Raise("OSError")
            ELSE IF SafeCloneOk(r)
            THEN /\ outcome' = [outcome EXCEPT ![idx] = Outcome("cloned", <<>>)]
                 /\ pc' = "pr_sleep"
                 /\ UNCHANGED <<idx, ret>>
            ELSE Return("clone_failed", CloneDiagnostic(r))
    /\ UNCHANGED <<repos, stems, cfg, root, dest>>

\* variant: is_git_repo is not asked, the caller goes on as if it said yes
ProbeRepo_skip(next, failKind) ==
    /\ log' = log
    /\ pc' = next
    /\ UNCHANGED <<idx, outcome, ret>>

\* is_git_repo of the destination: the rev-parse probe runs when there is no
\* .git entry; next is where the caller goes when the answer is yes
ProbeRepo(next, failKind) ==
    IF NeedsRevParse(fs[dest])
    THEN \E r \in RevParseResults(fs[dest]) :
           /\ Issue("rev-parse", r)
           /\ IF RunGitRaises(r) THEN Raise("OSError")
              ELSE IF IsGitRepo(fs[dest], r.rc)
              THEN pc' = next /\ UNCHANGED <<idx, outcome, ret>>
              ELSE Return(failKind, <<>>)
    ELSE /\ log' = log
         /\ IF IsGitRepo(fs[dest], 1)
            THEN pc' = next /\ UNCHANGED <<idx, outcome, ret>>
            ELSE Return(failKind, <<>>)

\* process_repo, lines 234-236
PrIsRepo ==
    /\ pc = "pr_isrepo"
    /\ ProbeRepo("pr_status", "not_a_repo")
    /\ UNCHANGED <<repos, stems, cfg, fs, root, dest>>

\* process_repo, lines 239-241
PrStatus ==
    /\ pc = "pr_status"
    /\ \E r \in StatusResults(fs[dest]) :
         /\ Issue("status", r)
         /\ IF RunGitRaises(r) THEN Raise("OSError")
            ELSE IF HasUncommittedChanges(r)
            THEN Return("dirty", <<>>)
            ELSE pc' = "sp_isrepo" /\ UNCHANGED <<idx, outcome, ret>>
    /\ UNCHANGED <<repos, stems, cfg, fs, root, dest>>

\* safe_pull, lines 172-174 (a False makes process_repo log line 245)
SpIsRepo ==
    /\ pc = "sp_isrepo"
    /\ ProbeRepo("sp_status", "update_failed")
    /\ UNCHANGED <<repos, stems, cfg, fs, root, dest>>

\* safe_pull, lines 178-182
SpStatus ==
    /\ pc = "sp_status"
    /\ IF PullChecksStatus(fs[dest])
       THEN \E r \in StatusResults(fs[dest]) :
              /\ Issue("status", r)
              /\ IF RunGitRaises(r) THEN Raise("OSError")
                 ELSE IF HasUncommittedChanges(r)
                 THEN Return("update_failed", <<>>)
                 ELSE pc' = "sp_remote" /\ UNCHANGED <<idx, outcome, ret>>
       ELSE pc' = "sp_remote" /\ UNCHANGED <<idx, outcome, ret, log>>
    /\ UNCHANGED <<repos, stems, cfg, fs, root, dest>>

\* one command of the update chain of safe_pull: success ends safe_pull
\* with True, failure goes on to next (no next: lines 203-204, then 245)
UpdateStep(cmd, next) ==
    \E r \in UpdateResults :
      /\ Issue(cmd, r)
      /\ IF RunGitRaises(r) THEN Raise("OSError")
         ELSE IF UpdateOk(r)
         THEN /\ outcome' = [outcome EXCEPT ![idx] = Outcome("updated", <<>>)]
              /\ pc' = "pr_sleep"
              /\ UNCHANGED <<idx, ret>>
         ELSE IF next # "none"
         THEN pc' = next /\ UNCHANGED <<idx, outcome, ret>>
         ELSE Return("update_failed", <<>>)

\* safe_pull, lines 186-189
SpRemote ==
    /\ pc = "sp_remote"
    /\ UpdateStep("remote update", "sp_fetch")
    /\ UNCHANGED <<repos, stems, cfg, fs, root, dest>>

\* safe_pull, lines 192-195
SpFetch ==
    /\ pc = "sp_fetch"
    /\ UpdateStep("fetch", "sp_pull")
    /\ UNCHANGED <<repos, stems, cfg, fs, root, dest>>

\* safe_pull, lines 198-204
SpPull ==
    /\ pc = "sp_pull"
    /\ UpdateStep("pull", "none")
    /\ UNCHANGED <<repos, stems, cfg, fs, root, dest>>

\* process_repo, line 249, with _sleep
PrSleep ==
    /\ pc = "pr_sleep"
    /\ \E secs \in SleepChoices(cfg) :
         IF SleepRaises(secs)
         THEN Raise("ValueError")
         ELSE /\ outcome' = [outcome EXCEPT ![idx].sleeps = Append(@, secs)]
              /\ pc' = "loop"
              /\ idx' = idx + 1
              /\ ret' = ret
    /\ UNCHANGED <<repos, stems, cfg, fs, root, dest, log>>

Next ==
    \/ MainMkdirRoot
    \/ MainLoop
    \/ PrResolve
    \/ PrMkdir
    \/ PrClone
    \/ PrIsRepo
    \/ PrStatus
    \/ SpIsRepo
    \/ SpStatus
    \/ SpRemote
    \/ SpFetch
    \/ SpPull
    \/ PrSleep

Spec == Init /\ [][Next]_vars


\* ------------------------------------------------------------------- claims
CallPcs == {"pr_resolve", "pr_mkdir", "pr_clone", "pr_isrepo", "pr_status",
            "sp_isrepo", "sp_status", "sp_remote", "sp_fetch", "sp_pull", "pr_sleep"}
InCall == pc \in CallPcs

\* the list entry of the latest process_repo call (0: none yet)
LastCall == IF InCall THEN idx ELSE idx - 1
\* the latest process_repo call has ended
CallEnded == ~InCall /\ LastCall >= 1

UpdateCmds == {"remote update", "fetch", "pull"}
MutatingCmds == {"clone"} \cup UpdateCmds

\* a status query that ran and listed at least one entry
ReportsEntries(e) == e.cmd = "status" /\ e.spawned /\ Strip(e.out) # <<>>

\* the probes of process_repo found a valid repository: no probe command was
\* needed, or the rev-parse probe exited 0
FoundValid(e) == e.st.exists /\ (e.st.dotgit \/ e.st.inrepo)

\* C1: a repository that is valid and whose status query lists an entry is
\* skipped: its call issues no clone, remote update, fetch or pull, it ends
\* with the warning of the dirty case (or, inside safe_pull, the failed
\* update), without delay and without exception
C1_DirtyIsSkipped ==
    \A k \in 1..Len(log) :
        ReportsEntries(log[k]) =>
            /\ FoundValid(log[k])
            /\ \A j \in 1..Len(log) : log[j].cmd \notin MutatingCmds
            /\ k = Len(log)
            /\ CallEnded
            /\ outcome[log[k].i].kind \in {"dirty", "update_failed"}
            /\ ((\A j \in 1..(k - 1) : log[j].cmd # "status")
                    => outcome[log[k].i].kind = "dirty")
            /\ outcome[log[k].i].sleeps = <<>>
            /\ outcome[log[k].i].exc = "none"

\* a dirty working tree was classified and its call has ended with the skip
C1_Witness ==
    /\ CallEnded
    /\ dest # NoDest
    /\ fs[dest].dirty
    /\ outcome[LastCall].kind = "dirty"
    /\ \E k \in 1..Len(log) : ReportsEntries(log[k])


\* a status query that did not execute: not spawned, or a non-zero exit
StatusFailed(e) == e.cmd = "status" /\ (~e.spawned \/ e.rc # 0)

\* a command of the latest call that was spawned and ran
Ran(cmds) == \E j \in 1..Len(log) : log[j].cmd \in cmds /\ log[j].spawned

\* C2, for a status command that exits non-zero in a valid repository with
\* uncommitted changes: the repository is treated as dirty, so no remote
\* update, fetch or pull runs in that call, and the call ends with the skip
\* of the dirty case and without exception
C2_StatusFailureIsDirty ==
    \A k \in 1..Len(log) :
        (StatusFailed(log[k]) /\ log[k].spawned /\ log[k].st.dirty) =>
            /\ ~Ran(UpdateCmds)
            /\ (CallEnded /\ \A j \in 1..Len(log) : log[j].spawned) =>
                  /\ outcome[log[k].i].exc = "none"
                  /\ outcome[log[k].i].kind \in {"dirty", "update_failed"}

AllowedCmds == {"mkdir", "rev-parse", "status", "clone", "remote update", "fetch", "pull"}

\* a probe that gave no answer, or the answer dirty, or the answer invalid
NotClassifiedClean(e) ==
    \/ e.cmd \in {"rev-parse", "status"} /\ ~e.spawned
    \/ StatusFailed(e)
    \/ ReportsEntries(e)
    \/ e.cmd = "rev-parse" /\ e.spawned /\ e.rc # 0

\* C3: no command outside clone, the probes and the update commands is ever
\* issued, a clone is only issued against a path that does not exist, and a
\* repository that cannot be classified or is classified dirty or invalid
\* has no mutating command run against it
C3_NeverDestructive ==
    /\ \A k \in 1..Len(log) : log[k].cmd \in AllowedCmds
    /\ \A k \in 1..Len(log) : log[k].cmd = "clone" => ~log[k].st.exists
    /\ \A k \in 1..Len(log) :
         NotClassifiedClean(log[k]) => ~Ran(MutatingCmds)

\* the path exists and has no .git entry
NoControlDir(st) == st.exists /\ ~st.dotgit
\* the path exists, has no .git entry and rev-parse does not exit 0 in it
NotARepo(st) == st.exists /\ ~st.dotgit /\ ~st.inrepo

ProbesValid(st) == IsGitRepo(st, IF st.inrepo THEN 0 ELSE 128)
ProbesClean(st) ==
    \A r \in StatusResults(st) : r.spawned => ~HasUncommittedChanges(r)

\* the commands of a call whose destination did not exist at line 219
AbsentCall == Len(log) >= 1 /\ ~log[1].st.exists

\* C5: for an absent path the call makes the parent directories first and
\* then issues one clone of that url into that path and nothing else (no
\* clone without the directories, no second clone, no probe, no update);
\* a clone that exits 0 is logged as the successful clone, and the path then
\* passes the validity probe and has no entry in its status
C5_AbsentIsCloned ==
    AbsentCall =>
        /\ log[1].cmd = "mkdir"
        /\ Len(log) <= 2
        /\ \A k \in 1..Len(log) : log[k].cmd \in {"mkdir", "clone"}
        /\ (Len(log) = 2 =>
              /\ log[1].rc = 0
              /\ log[2].cmd = "clone"
              /\ log[2].url = repos[log[2].i]
              /\ log[2].dest = dest
              /\ dest = RepoNameFromUrl(log[2].url))
        /\ (log[1].rc = 0 /\ pc # "pr_clone" => Len(log) = 2)
        /\ (log[1].rc = 0 <=> (pc = "pr_clone" \/ Len(log) = 2))
        /\ (Len(log) = 2 /\ log[2].spawned /\ log[2].rc = 0 =>
              /\ outcome[log[2].i].kind = "cloned"
              /\ outcome[log[2].i].msg = <<>>
              /\ fs[dest].exists
              /\ ProbesValid(fs[dest])
              /\ ProbesClean(fs[dest]))

\* an absent path was cloned with exit code 0 and its call is over
C5_Witness ==
    /\ CallEnded
    /\ AbsentCall
    /\ Len(log) = 2 /\ log[2].cmd = "clone" /\ log[2].spawned /\ log[2].rc = 0
    /\ outcome[LastCall].kind = "cloned"
    /\ outcome[LastCall].exc = "none"
    /\ ProbesValid(fs[dest])

\* every separator of the url is in its trailing run of separators: nothing
\* but one segment is left once they are stripped
TrailingSepOnly(url) ==
    /\ Contains(url, "/")
    /\ \A j, k \in 1..Len(url) : (url[j] = "/" /\ j < k) => url[k] = "/"
SeparatorFree(url) == ~Contains(url, "/")

\* the commands issued for list entry i by the latest call
IssuedFor(i) == {k \in 1..Len(log) : log[k].i = i}

\* C6 as stated: a url without an owner segment (no separator before the
\* final segment) gets no git command and no directory
C6_NoOwnerIsSkipped ==
    \A i \in 1..Len(repos) :
        (SeparatorFree(repos[i]) \/ TrailingSepOnly(repos[i])) => IssuedFor(i) = {}

\* C6 as amended: resolution fails only for a url that has a separator and
\* a single segment once the trailing separators are stripped; that entry
\* is left by an IndexError before any command or directory, and the loop
\* goes on with the next entry.  A url without any separator resolves, with
\* an empty owner, to the directory named by the whole url, and is
\* processed like any other entry.
C6_SingleSegmentUrl ==
    /\ \A i \in 1..Len(repos) :
         TrailingSepOnly(repos[i]) =>
             /\ IssuedFor(i) = {}
             /\ (i = LastCall => dest = NoDest)
             /\ (i = idx => pc \in {"main_mkdir", "fatal", "loop", "pr_resolve"})
             /\ (i < idx => /\ outcome[i].kind = "none"
                            /\ outcome[i].exc = "IndexError"
                            /\ outcome[i].sleeps = <<>>)
    /\ \A i \in 1..Len(repos) :
         (SeparatorFree(repos[i]) /\ i = LastCall /\ pc # "pr_resolve") =>
             /\ dest = Sanitise(repos[i])
             /\ outcome[i].exc # "IndexError"
             /\ (CallEnded => IssuedFor(i) # {})
    /\ (pc = "done" => idx = Len(repos) + 1)

\* an entry that fails to resolve was followed by an entry that was cloned
C6_Witness ==
    /\ pc = "done"
    /\ \E i \in 1..(Len(repos) - 1) :
         /\ TrailingSepOnly(repos[i])
         /\ outcome[i].exc = "IndexError"
         /\ SeparatorFree(repos[i + 1])
         /\ outcome[i + 1].kind = "cloned"

\* C7: a clone that exits non-zero ends its call at once: the clone is the
\* last command of the call, the call is logged as the failed clone with
\* the captured output of the command as its text, without delay and
\* without exception, and the loop goes on: at the end of the run every
\* entry after it was processed
Processed(i) == outcome[i].kind # "none" \/ outcome[i].exc # "none"

C7_CloneFailure ==
    \A k \in 1..Len(log) :
        (log[k].cmd = "clone" /\ log[k].spawned /\ log[k].rc # 0) =>
            /\ k = Len(log)
            /\ CallEnded
            /\ idx = log[k].i + 1
            /\ pc \in {"loop", "done"}
            /\ outcome[log[k].i].kind = "clone_failed"
            /\ outcome[log[k].i].msg # <<>>
            /\ outcome[log[k].i].msg \in {Strip(log[k].err), Strip(log[k].out)}
            /\ outcome[log[k].i].exc = "none"
            /\ outcome[log[k].i].sleeps = <<>>
            /\ ~fs[log[k].dest].exists
            /\ (pc = "done" => \A j \in 1..Len(repos) : Processed(j))

\* the run is over, the clone of the last entry exited 128
C7_Witness ==
    /\ pc = "done"
    /\ Len(repos) >= 2
    /\ outcome[1].kind = "clone_failed"
    /\ Processed(2)
    /\ Len(log) = 2 /\ log[2].cmd = "clone" /\ log[2].rc = 128


\* C8: an exception raised at any step of the call of entry i does not end
\* the run: the loop is past i, main has not returned or has returned 0,
\* and at the end of the run every entry after i was processed
C8_ExceptionDoesNotAbort ==
    \A i \in 1..Len(repos) :
        outcome[i].exc # "none" =>
            /\ idx > i
            /\ pc \in {"loop", "done"} \cup CallPcs
            /\ ret \in {NotReturned, OkStatus}
            /\ (pc = "loop" /\ idx <= Len(repos) => ret = NotReturned)
            /\ (pc = "done" => \A j \in (i + 1)..Len(repos) : Processed(j))

\* the run is over, an entry raised and the entry after it was cloned or
\* updated
C8_Witness ==
    /\ pc = "done"
    /\ \E i \in 1..(Len(repos) - 1) :
         /\ outcome[i].exc # "none"
         /\ outcome[i + 1].kind \in {"cloned", "updated"}
         /\ outcome[i + 1].exc = "none"

\* C9 as stated: no url error and no command that cannot be spawned leaves
\* process_repo as an exception
C9_NothingEscapes ==
    \A i \in 1..Len(repos) : outcome[i].exc \notin {"IndexError", "OSError"}

FailureKinds == {"mkdir_failed", "clone_failed", "not_a_repo", "update_failed"}

\* C9 as amended: a command that exits non-zero and a failed creation of
\* the parent directories are handled inside process_repo (the call ends
\* with its logged failure, no exception); a url whose owner segment is out
\* of range and a git command that cannot be spawned leave process_repo as
\* an exception (IndexError, OSError), which the loop of main catches
C9_WhatEscapes ==
    /\ \A i \in 1..Len(repos) :
         /\ outcome[i].exc = "IndexError" <=> (TrailingSepOnly(repos[i]) /\ i < idx)
         /\ outcome[i].exc # "none" =>
              /\ idx > i
              /\ ret \in {NotReturned, OkStatus}
              /\ outcome[i].sleeps = <<>>
    /\ LastCall >= 1 /\ LastCall <= Len(repos) =>
         /\ (\E k \in 1..Len(log) : ~log[k].spawned) <=> outcome[LastCall].exc = "OSError"
         /\ \A k \in 1..Len(log) : ~log[k].spawned => (k = Len(log) /\ CallEnded)
         /\ (CallEnded /\ Len(log) >= 1 /\ log[Len(log)].spawned /\ log[Len(log)].rc # 0) =>
              /\ outcome[LastCall].exc = "none"
              /\ outcome[LastCall].kind \in FailureKinds

\* the run is over: the git command of the first entry could not be spawned,
\* the clone of the second exited non-zero
C9_Witness ==
    /\ pc = "done"
    /\ Len(repos) >= 2
    /\ outcome[1].exc = "OSError"
    /\ outcome[2].kind = "clone_failed"
    /\ outcome[2].exc = "none"

\* C10: main returns 2 exactly when the mkdir of the backup root failed, and
\* then no entry was processed and no command issued; after a successful
\* mkdir main returns 0, at the end of the loop, whatever the outcomes
C10_FatalOnlyForRoot ==
    /\ ret \in {NotReturned, OkStatus, FatalStatus}
    /\ ret = FatalStatus <=> root = "failed"
    /\ root = "failed" =>
         /\ pc = "fatal"
         /\ idx = 1
         /\ log = <<>>
         /\ \A i \in 1..Len(repos) : ~Processed(i)
    /\ ret = OkStatus <=> pc = "done"
    /\ pc = "done" =>
         /\ root = "ok"
         /\ idx = Len(repos) + 1
         /\ \A i \in 1..Len(repos) : Processed(i)

\* the mkdir of the backup root failed with a non-empty list
C10_Witness ==
    /\ ret = FatalStatus
    /\ root = "failed"
    /\ Len(repos) >= 1


\* the calls that have ended
Ended(i) == i < idx

\* C11: no delay after the last entry of the list, and, in a complete run,
\* one delay after every other entry whose call returned, whatever its
\* outcome
C11_DelayBetweenRepos ==
    /\ \A i \in 1..Len(repos) :
         (Ended(i) /\ i = Len(repos)) => outcome[i].sleeps = <<>>
    /\ pc = "done" =>
         \A i \in 1..(Len(repos) - 1) :
             outcome[i].exc = "none" => Len(outcome[i].sleeps) = 1

\* ------------------------------------------------------------ delay bounds
\* the configured delays of the delay specification: 2 * h ticks of half a
\* second, for h from -1 to MaxHalf
MaxHalf == 4
DelayCfgSet ==
    {[sleep_seconds |-> 2 * h, randomize_sleep |-> b] : h \in (-1)..MaxHalf, b \in BOOLEAN}

\* runs over one repository with every configured delay
InitDelay == InitRun({<<UrlN>>}, DelayCfgSet, Stems, PathStates)
SpecDelay == InitDelay /\ [][Next]_vars

\* C12: for a configured delay d >= 0 every duration handed to time.sleep
\* lies in [d/2, 3d/2] with jitter and is d without; no duration is negative
C12_DelayBounds ==
    \A i \in 1..Len(repos) :
        \A k \in 1..Len(outcome[i].sleeps) :
            LET s == outcome[i].sleeps[k]
                d == cfg.sleep_seconds
            IN  /\ s >= 0
                /\ d >= 0 =>
                     IF cfg.randomize_sleep
                     THEN 2 * s >= d /\ 2 * s <= 3 * d
                     ELSE s = d

\* a delay of 3.0 seconds (6 ticks) with jitter gave 4.5 seconds (9 ticks)
C12_Witness ==
    /\ cfg = [sleep_seconds |-> 6, randomize_sleep |-> TRUE]
    /\ Len(repos) = 1
    /\ outcome[1].sleeps = <<9>>


\* ---------------------------------------------------------- path resolution
\* urls of the two remote forms, scheme://host/owner/name[.git] and
\* user@host:owner/name[.git], for a few owners and names
SchemePrefix == <<"s", ":", "/", "/", "h", "/">>
ScpPrefix    == <<"u", "@", "h", ":">>
DotGit       == <<".", "g", "i", "t">>
Owners == {<<"a">>, <<"b">>, <<"a", "_">>}
Names  == {<<"x">>, <<"_", "x">>}
Forms  == {"scheme", "scp"}

UrlFor(form, o, n, g) ==
    (IF form = "scheme" THEN SchemePrefix ELSE ScpPrefix)
        \o o \o <<"/">> \o n \o (IF g THEN DotGit ELSE <<>>)

PathUrls == {UrlFor(f, o, n, g) : f \in Forms, o \in Owners, n \in Names, g \in BOOLEAN}
PathStems == {RepoNameFromUrl(u) : u \in PathUrls}

\* runs over two repositories of these forms into an empty backup root
InitPath ==
    InitRun([1..2 -> PathUrls], {[sleep_seconds |-> 2, randomize_sleep |-> FALSE]},
            PathStems, {Absent})
SpecPath == InitPath /\ [][Next]_vars

\* the owner, the name and the suffix a url of these forms was written with
OwnerIn(url)  == CHOOSE o \in Owners : \E f \in Forms, n \in Names, g \in BOOLEAN : url = UrlFor(f, o, n, g)
NameIn(url)   == CHOOSE n \in Names : \E f \in Forms, o \in Owners, g \in BOOLEAN : url = UrlFor(f, o, n, g)
SuffixIn(url) == CHOOSE g \in BOOLEAN : \E f \in Forms, o \in Owners, n \in Names : url = UrlFor(f, o, n, g)

Resolved(i) == stems[i] # NoDest

\* C13: the two url forms of one owner and name resolve to the same local
\* path (here: for urls written with the same suffix)
C13_FormIndependent ==
    \A i, j \in 1..Len(repos) :
        (/\ Resolved(i) /\ Resolved(j)
         /\ OwnerIn(repos[i]) = OwnerIn(repos[j])
         /\ NameIn(repos[i]) = NameIn(repos[j])
         /\ SuffixIn(repos[i]) = SuffixIn(repos[j]))
            => stems[i] = stems[j]

\* C14: the same url resolves to the same local path, and two urls whose
\* (owner, name) pairs differ resolve to different local paths
C14_CollisionFree ==
    \A i, j \in 1..Len(repos) :
        (Resolved(i) /\ Resolved(j)) =>
            /\ repos[i] = repos[j] => stems[i] = stems[j]
            /\ <<OwnerIn(repos[i]), NameIn(repos[i])>> # <<OwnerIn(repos[j]), NameIn(repos[j])>>
                  => stems[i] # stems[j]


\* a repository (mirror or working tree) without uncommitted changes
CleanClone(st) == st.exists /\ st.inrepo /\ ~st.dirty

\* the latest call found a clean clone at its destination
OnCleanClone == Len(log) >= 1 /\ CleanClone(log[1].st)

InOrder ==
    /\ idx \in 1..(Len(repos) + 1)
    /\ \A i \in 1..Len(repos) :
         /\ i < idx => Processed(i)
         /\ i > idx => ~Processed(i) /\ stems[i] = NoDest /\ outcome[i] = NoOutcome
    /\ \A k \in 1..Len(log) : log[k].i = LastCall /\ log[k].url = repos[LastCall]
    /\ pc = "done" => idx = Len(repos) + 1

\* one step of the run: the loop moves by one entry and only when a call
\* ends, a call starts only for an entry not processed before, and only the
\* entry in progress gets commands and an outcome
OneAtATime ==
    /\ idx' \in {idx, idx + 1}
    /\ idx' = idx + 1 <=> (InCall /\ pc' = "loop")
    /\ (pc' = "pr_resolve" /\ pc # "pr_resolve") =>
          pc = "loop" /\ ~Processed(idx) /\ log' = <<>>
    /\ \A i \in 1..Len(repos) : outcome'[i] # outcome[i] => (i = idx /\ InCall)
    /\ log' # log =>
          \/ log' = <<>> /\ pc = "loop"
          \/ /\ InCall
             /\ Len(log') = Len(log) + 1
             /\ SubSeq(log', 1, Len(log)) = log
             /\ log'[Len(log')].i = idx

\* C16: the entries are processed one at a time in list order, each exactly
\* once: a call is started for entry idx only, all commands and the outcome
\* of a call belong to the entry in progress, the loop moves to the next
\* entry exactly when a call ends (whatever its outcome), and the run ends
\* after the last entry
C16_Sequential == []InOrder /\ [][OneAtATime]_vars

\* a run over two entries has ended: the first call failed, the second
\* cloned, and the log holds the commands of the second only
C16_Witness ==
    /\ pc = "done"
    /\ Len(repos) = 2
    /\ outcome[1].kind = "clone_failed"
    /\ outcome[2].kind = "cloned"
    /\ Len(log) = 2
    /\ \A k \in 1..Len(log) : log[k].i = 2


\* ------------------------------------------------------------------ liveness
\* every subprocess.run, mkdir and time.sleep returns or raises, and the
\* interpreter goes on to the next statement: a step that can be taken is
\* eventually taken
FairPathStates == {Absent, PlainDir, Mirror, WorkTree(TRUE)}
FairCfgSet == {[sleep_seconds |-> 2, randomize_sleep |-> FALSE],
               [sleep_seconds |-> -2, randomize_sleep |-> FALSE]}
FairLists == {<<>>, <<UrlBad>>, <<UrlN, UrlON>>, <<UrlON, UrlBad, UrlONS>>}
InitFair == InitRun(FairLists, FairCfgSet, Stems, FairPathStates)
FairSpec == InitFair /\ [][Next]_vars /\ WF_vars(Next)

\* C17: once the backup root is there, the run reaches its end, the log line
\* of the completed run and the return of 0, whatever the list and whatever
\* the outcomes of the calls
C17_RunCompletes == (root = "ok") ~> (pc = "done" /\ ret = OkStatus)

\* a run has ended after an exception in the first call and a failed update
\* in the second
C17_Witness ==
    /\ pc = "done"
    /\ ret = OkStatus
    /\ Len(repos) = 2
    /\ outcome[1].exc = "OSError"
    /\ outcome[2].kind = "update_failed"


\* the rev-parse probe of is_git_repo ran and exited 0
ProbeSaidYes(e) == e.cmd = "rev-parse" /\ e.spawned /\ e.rc = 0

\* C18: every status query is issued against a path that exists and is a
\* repository (it has a .git entry or rev-parse exits 0 in it); when the
\* answer of is_git_repo needs the rev-parse probe, the command right before
\* the status query, in the same call, is that probe with exit 0; a call
\* issues at most two status queries, the one of process_repo and the one of
\* safe_pull, and none in a call that found its destination absent
C18_StatusAfterValid ==
    \A k \in 1..Len(log) :
        log[k].cmd = "status" =>
            /\ log[k].st.exists
            /\ log[k].st.dotgit \/ log[k].st.inrepo
            /\ log[1].st.exists
            /\ \A j \in 1..k : log[j].cmd \in {"rev-parse", "status"}
            /\ ~log[k].st.dotgit =>
                  k > 1 /\ ProbeSaidYes(log[k - 1]) /\ log[k - 1].dest = log[k].dest
            /\ Cardinality({j \in 1..k : log[j].cmd = "status"}) <= 2

\* a mirror was probed and queried in process_repo and again in safe_pull
C18_Witness ==
    /\ Len(log) >= 4
    /\ log[1].st = Mirror
    /\ ProbeSaidYes(log[1]) /\ log[2].cmd = "status"
    /\ ProbeSaidYes(log[3]) /\ log[4].cmd = "status"


\* a command that ran and exited non-zero
ExitedNonZero(e) == e.spawned /\ e.rc # 0

\* C19: the update commands of a call are issued in the order remote update,
\* fetch, pull, each at most once; fetch only right after a remote update
\* that exited non-zero, pull only right after a fetch that exited non-zero;
\* an update command that exits 0 is the last command of the call and makes
\* the update a success, and a success needs one; the update of a clean clone
\* fails only after all three exited non-zero
C19_FallbackChain ==
    /\ \A k \in 1..Len(log) :
         log[k].cmd \in UpdateCmds =>
            /\ \A j \in 1..Len(log) : log[j].cmd = log[k].cmd => j = k
            /\ log[k].cmd = "remote update" =>
                  \A j \in 1..Len(log) : log[j].cmd \in UpdateCmds => j >= k
            /\ log[k].cmd = "fetch" =>
                  k > 1 /\ log[k - 1].cmd = "remote update" /\ ExitedNonZero(log[k - 1])
            /\ log[k].cmd = "pull" =>
                  k > 1 /\ log[k - 1].cmd = "fetch" /\ ExitedNonZero(log[k - 1])
            /\ (log[k].spawned /\ log[k].rc = 0) =>
                  k = Len(log) /\ outcome[log[k].i].kind = "updated"
    /\ (LastCall >= 1 /\ outcome[LastCall].kind = "updated") =>
          /\ Len(log) >= 1
          /\ log[Len(log)].cmd \in UpdateCmds
          /\ log[Len(log)].spawned /\ log[Len(log)].rc = 0
    /\ (CallEnded /\ OnCleanClone /\ outcome[LastCall].kind = "update_failed") =>
          /\ Len(log) >= 3
          /\ log[Len(log) - 2].cmd = "remote update" /\ ExitedNonZero(log[Len(log) - 2])
          /\ log[Len(log) - 1].cmd = "fetch" /\ ExitedNonZero(log[Len(log) - 1])
          /\ log[Len(log)].cmd = "pull" /\ ExitedNonZero(log[Len(log)])

\* remote update and fetch exited non-zero in a mirror and pull exited 0
C19_Witness ==
    /\ Len(log) >= 3
    /\ log[1].st = Mirror
    /\ log[Len(log) - 2].cmd = "remote update" /\ ExitedNonZero(log[Len(log) - 2])
    /\ log[Len(log) - 1].cmd = "fetch" /\ ExitedNonZero(log[Len(log) - 1])
    /\ log[Len(log)].cmd = "pull" /\ log[Len(log)].spawned /\ log[Len(log)].rc = 0
    /\ outcome[LastCall].kind = "updated"


SuccessKinds == {"cloned", "updated"}

====
